---- MODULE Spec2Model ----
\* A model of src/benchmark_qft.py: the four QFT circuit generators and the
\* sequential benchmarking harness benchmark_qft with its three passes
\* (Qiskit with the Toaster and Aer backends, pyQuil with QVM, Cirq).
EXTENDS Integers, Sequences, FiniteSets, TLC

\* ---------------------------------------------------------------------------
\* Bounds of the model
\* ---------------------------------------------------------------------------
\* Circuit sizes the generators are applied to: 1..MaxN.
MaxN == 20
\* benchmark_qft(from_qubits, to_qubits) is called with both in QubitLo..QubitHi.
QubitLo == 20
QubitHi == 21
\* A run call takes 1..MaxElapsed clock units.
MaxElapsed == 2

\* ---------------------------------------------------------------------------
\* Circuit generators
\* ---------------------------------------------------------------------------
\* An angle is pi^piPow / den radians.
\* math.pi/float(2**(j-k))
Angle_column(j, k) == [piPow |-> 1, den |-> 2 ^ j]

Angle(j, k) == [piPow |-> 1, den |-> 2 ^ (j - k)]

\* Qiskit: cu1(theta, ctl, tgt) is diag(1, 1, 1, e^(i theta)): phase theta.
cu1(theta, ctl, tgt) ==
    [gate |-> "cphase", angle |-> theta, control |-> ctl, target |-> tgt]

\* pyQuil: CPHASE(angle, control, target), phase angle.
CPHASE(theta, ctl, tgt) ==
    [gate |-> "cphase", angle |-> theta, control |-> ctl, target |-> tgt]

\* Cirq: ZPowGate(exponent=t) is diag(1, e^(i pi t)), so its controlled form
\* applies the phase pi * t radians; controlled()(a, b) has control a, target b.
ZPowGate_controlled(exponent, ctl, tgt) ==
    [gate |-> "cphase",
     angle |-> [piPow |-> exponent.piPow + 1, den |-> exponent.den],
     control |-> ctl, target |-> tgt]

\* qsim text line "<t> cp <j> <k> <angle>": controlled phase of <angle> radians.
qsim_cp(t, ctl, tgt, theta) ==
    [gate |-> "cphase", angle |-> theta, control |-> ctl, target |-> tgt,
     time |-> t]

h(q) == [gate |-> "h", qubit |-> q]

qsim_h(t, q) == [gate |-> "h", qubit |-> q, time |-> t]

measure(q) == [gate |-> "measure", qubit |-> q]

\* for k in range(j): qc.cu1(...); then qc.h(q[j])
qiskit_body_swapped(j) ==
    <<h(j)>> \o [x \in 1..j |-> cu1(Angle(j, x - 1), j, x - 1)]

qiskit_body(j) ==
    [x \in 1..j |-> cu1(Angle(j, x - 1), j, x - 1)] \o <<h(j)>>

pyquil_body(j) ==
    [x \in 1..j |-> CPHASE(Angle(j, x - 1), j, x - 1)] \o <<h(j)>>

cirq_body(j) ==
    [x \in 1..j |-> ZPowGate_controlled(Angle(j, x - 1), j, x - 1)] \o <<h(j)>>

\* t counts the gates emitted so far: before column j it is j(j+1)/2.
RECURSIVE qsim_t(_)
qsim_t(j) == IF j = 0 THEN 0 ELSE qsim_t(j - 1) + j

qsim_body(j) ==
    [x \in 1..j |-> qsim_cp(qsim_t(j) + x - 1, j, x - 1, Angle(j, x - 1))]
        \o <<qsim_h(qsim_t(j) + j, j)>>

\* for j in range(n): body(j)
RECURSIVE qiskit_gates(_, _)
qiskit_gates(j, n) ==
    IF j >= n THEN <<>> ELSE qiskit_body(j) \o qiskit_gates(j + 1, n)

RECURSIVE pyquil_gates(_, _)
pyquil_gates(j, n) ==
    IF j >= n THEN <<>> ELSE pyquil_body(j) \o pyquil_gates(j + 1, n)

RECURSIVE cirq_gates(_, _)
cirq_gates(j, n) ==
    IF j >= n THEN <<>> ELSE cirq_body(j) \o cirq_gates(j + 1, n)

RECURSIVE qsim_gates(_, _)
qsim_gates(j, n) ==
    IF j >= n THEN <<>> ELSE qsim_body(j) \o qsim_gates(j + 1, n)

\* for i in range(n): measure qubit i
measure_all(n) == [x \in 1..n |-> measure(x - 1)]

qft_qiskit(n) == qiskit_gates(0, n) \o measure_all(n)

qft_pyquil(n) == pyquil_gates(0, n) \o measure_all(n)

qft_cirq(n) == cirq_gates(0, n) \o measure_all(n)

\* The measurement lines are commented out in qft_qsim.
qft_qsim(n) == qsim_gates(0, n)

Generators == {"qft_qiskit", "qft_pyquil", "qft_cirq", "qft_qsim"}

\* ---------------------------------------------------------------------------
\* The benchmarking harness
\* ---------------------------------------------------------------------------
\* np.nan, the value of a cell or of a best time that holds no measurement.
\* Elapsed times are never negative, so -1 stands for it.
NaN == -1

\* np.isnan
isnan(x) == x = NaN

\* Python's min(a, b)
min(a, b) == IF b < a THEN b ELSE a

\* Repeat multiple times for small number of qubits: 4 if i <= 20 else 1
RepeatThreshold == 20
RepeatSmall == 4
RepeatLarge == 1

repeat_for_mut(n) == IF n < RepeatThreshold THEN RepeatSmall ELSE RepeatLarge

repeat_for(n) == IF n <= RepeatThreshold THEN RepeatSmall ELSE RepeatLarge

\* The backends, in the order the harness times them, and the pass
\* (benchmark_qft_qiskit, benchmark_qft_pyquil, benchmark_qft_cirq) of each.
Backends == {"toaster", "aer", "qvm", "cirq"}

PassOf(b) ==
    CASE b \in {"toaster", "aer"} -> "qiskit"
      [] b = "qvm" -> "pyquil"
      [] b = "cirq" -> "cirq"

\* What the version services and the installed packages report.
ToasterVersions == {"1.0", "1.1"}
QvmVersions == {"1.16", "1.17"}
AerVersion == "0.3"
CirqVersion == "0.6"

\* pd.DataFrame(index=range(from_qubits, to_qubits + 1), columns=[])
DataFrame_mut(lo, hi) ==
    [index |-> lo..(hi - 1), columns |-> <<>>, data |-> <<>>]

DataFrame(lo, hi) ==
    [index |-> lo..hi, columns |-> <<>>, data |-> <<>>]

ColumnSet(df) == {df.columns[x] : x \in 1..Len(df.columns)}

\* results[label] = np.nan: a new column (or the existing one) with NaN in
\* every row of the index.
set_column(df, label) ==
    [index |-> df.index,
     columns |-> IF label \in ColumnSet(df) THEN df.columns
                 ELSE Append(df.columns, label),
     data |-> [l \in ColumnSet(df) \cup {label} |->
                 IF l = label THEN [n \in df.index |-> NaN] ELSE df.data[l]]]

\* results[label][n] = value, for a column and a row the frame has.
set_cell(df, label, n, value) ==
    [df EXCEPT !.data[label][n] = value]

VARIABLES
    gen_n, gen, out,          \* the generator under test, its input and output
    from_qubits, to_qubits,   \* the arguments of benchmark_qft
    pc,                       \* the statement the harness executes next
    pass,                     \* the benchmark_qft_* function being executed
    gc_enabled,               \* gc.isenabled()
    results,                  \* the DataFrame
    col,                      \* backend -> its column name (col_qiskit_toaster, ...)
    handles,                  \* backends, sessions and simulators acquired
    i, circ, repeat, r, b,    \* loop variables; b is the backend being timed
    best,                     \* toaster_time, aer_time, qvm_time, cirq_time
    start_time, clock, elapsed_time,
    plotted,                  \* output/benchmark_qft.png has been written
    samples,                  \* history: the elapsed times folded into best
    calls,                    \* history: backend -> n -> run calls made
    written,                  \* history: backend -> the rows written, in order
    ev                        \* history: the statement executed last

gen_vars == <<gen_n, gen, out>>

run_vars ==
    <<from_qubits, to_qubits, pc, pass, gc_enabled, results, col, handles, i,
      circ, repeat, r, b, best, start_time, clock, elapsed_time, plotted,
      samples, calls, written, ev>>

vars == <<gen_vars, run_vars>>

Event(op, bk, n) == [op |-> op, b |-> bk, n |-> n]

RunInit ==
    /\ from_qubits \in QubitLo..QubitHi
    /\ to_qubits \in QubitLo..QubitHi
    /\ pc = "main"
    /\ pass = "none"
    /\ gc_enabled = TRUE
    /\ results = DataFrame(0, -1)
    /\ col = <<>>
    /\ handles = {}
    /\ i = 0
    /\ circ = <<>>
    /\ repeat = 0
    /\ r = 0
    /\ b = "none"
    /\ best = NaN
    /\ start_time = 0
    /\ clock = 0
    /\ elapsed_time = 0
    /\ plotted = FALSE
    /\ samples = <<>>
    /\ calls = [x \in Backends |-> [n \in from_qubits..to_qubits |-> 0]]
    /\ written = [x \in Backends |-> <<>>]
    /\ ev = Event("none", "none", 0)

GenIdle == gen_n = 0 /\ gen = "none" /\ out = <<>>


\* --- specification of the generators -----------------------------------------
GenInit == gen_n \in 1..MaxN /\ gen = "none" /\ out = <<>> /\ RunInit

GenQiskit ==
    /\ gen = "none"
    /\ gen' = "qft_qiskit"
    /\ out' = qft_qiskit(gen_n)
    /\ UNCHANGED <<gen_n, run_vars>>

GenPyquil ==
    /\ gen = "none"
    /\ gen' = "qft_pyquil"
    /\ out' = qft_pyquil(gen_n)
    /\ UNCHANGED <<gen_n, run_vars>>

GenCirq ==
    /\ gen = "none"
    /\ gen' = "qft_cirq"
    /\ out' = qft_cirq(gen_n)
    /\ UNCHANGED <<gen_n, run_vars>>

GenQsim ==
    /\ gen = "none"
    /\ gen' = "qft_qsim"
    /\ out' = qft_qsim(gen_n)
    /\ UNCHANGED <<gen_n, run_vars>>

GenNext == GenQiskit \/ GenPyquil \/ GenCirq \/ GenQsim

SpecGen == GenInit /\ [][GenNext]_vars

\* --- benchmark_qft ------------------------------------------------------------
\* An exception leaves every frame: nothing catches it, the process ends.
Raise_caught(op) ==
    /\ pc' = "gc_enable"
    /\ ev' = Event(op, b, i)
    /\ UNCHANGED <<gen_vars, from_qubits, to_qubits, pass, gc_enabled, results, col,
                   handles, i, circ, repeat, r, b, best, start_time, clock,
                   elapsed_time, plotted, samples, calls, written>>

Raise(op) ==
    /\ pc' = "aborted"
    /\ ev' = Event(op, b, i)
    /\ UNCHANGED <<gen_vars, from_qubits, to_qubits, pass, gc_enabled, results, col,
                   handles, i, circ, repeat, r, b, best, start_time, clock,
                   elapsed_time, plotted, samples, calls, written>>

\* results = pd.DataFrame(...); benchmark_qft_qiskit(from_qubits, to_qubits, results)
CreateResults ==
    /\ pc = "main"
    /\ results' = DataFrame(from_qubits, to_qubits)
    /\ pass' = "qiskit"
    /\ pc' = "gc_disable"
    /\ ev' = Event("create", "none", 0)
    /\ UNCHANGED <<gen_vars, from_qubits, to_qubits, gc_enabled, col, handles, i, circ,
                   repeat, r, b, best, start_time, clock, elapsed_time,
                   plotted, samples, calls, written>>

\* gc.disable(), the first statement of each pass
GcDisable ==
    /\ pc = "gc_disable"
    /\ gc_enabled' = FALSE
    /\ pc' = "label"
    /\ ev' = Event("gc.disable", "none", 0)
    /\ UNCHANGED <<gen_vars, from_qubits, to_qubits, pass, results, col, handles, i,
                   circ, repeat, r, b, best, start_time, clock, elapsed_time,
                   plotted, samples, calls, written>>

\* r = requests.get(...); col_qiskit_toaster = ...; results[col_qiskit_toaster] = np.nan
QueryToaster ==
    /\ pc = "label" /\ pass = "qiskit"
    /\ \E v \in ToasterVersions :
          /\ col' = col @@ ("toaster" :> <<"Qiskit+Toaster", v>>)
          /\ results' = set_column(results, <<"Qiskit+Toaster", v>>)
    /\ pc' = "label_aer"
    /\ ev' = Event("label", "toaster", 0)
    /\ UNCHANGED <<gen_vars, from_qubits, to_qubits, pass, gc_enabled, handles, i, circ,
                   repeat, r, b, best, start_time, clock, elapsed_time,
                   plotted, samples, calls, written>>

\* requests.get raises, or the reply has no "version"
QueryToasterRaises ==
    /\ pc = "label" /\ pass = "qiskit"
    /\ Raise("label_raises")

\* col_qiskit_aer = "Qiskit+Aer " + qiskit_version["qiskit-aer"]; results[col_qiskit_aer] = np.nan
LabelAer ==
    /\ pc = "label_aer"
    /\ col' = col @@ ("aer" :> <<"Qiskit+Aer", AerVersion>>)
    /\ results' = set_column(results, <<"Qiskit+Aer", AerVersion>>)
    /\ pc' = "get_backends"
    /\ ev' = Event("label", "aer", 0)
    /\ UNCHANGED <<gen_vars, from_qubits, to_qubits, pass, gc_enabled, handles, i, circ,
                   repeat, r, b, best, start_time, clock, elapsed_time,
                   plotted, samples, calls, written>>

\* for i in range(from_qubits, to_qubits + 1): the first iteration, or none
EnterLoop_last(first) ==
    /\ i' = to_qubits
    /\ pc' = IF from_qubits <= to_qubits THEN first ELSE "gc_enable"

EnterLoop(first) ==
    /\ i' = from_qubits
    /\ pc' = IF from_qubits <= to_qubits THEN first ELSE "gc_enable"

\* the next iteration, or the end of the loop
NextIteration(first) ==
    IF i < to_qubits
    THEN i' = i + 1 /\ pc' = first
    ELSE i' = i /\ pc' = "gc_enable"

\* the first statement of the loop body of each pass
LoopBody(p) == IF p = "cirq" THEN "simulator" ELSE "build"

\* aer_backend = Aer.get_backend(...); toaster_backend = ToasterBackend.get_backend(...)
GetBackends ==
    /\ pc = "get_backends"
    /\ handles' = handles \cup {"aer_backend", "toaster_backend"}
    /\ EnterLoop(LoopBody(pass))
    /\ ev' = Event("acquire", "none", 0)
    /\ UNCHANGED <<gen_vars, from_qubits, to_qubits, pass, gc_enabled, results, col,
                   circ, repeat, r, b, best, start_time, clock, elapsed_time,
                   plotted, samples, calls, written>>

\* r = requests.post(...); col_pyquil_qvm = ...; results[col_pyquil_qvm] = np.nan
QueryQvm ==
    /\ pc = "label" /\ pass = "pyquil"
    /\ \E v \in QvmVersions :
          /\ col' = col @@ ("qvm" :> <<"pyQuil+QVM", v>>)
          /\ results' = set_column(results, <<"pyQuil+QVM", v>>)
    /\ EnterLoop(LoopBody(pass))
    /\ ev' = Event("label", "qvm", 0)
    /\ UNCHANGED <<gen_vars, from_qubits, to_qubits, pass, gc_enabled, handles, circ,
                   repeat, r, b, best, start_time, clock, elapsed_time,
                   plotted, samples, calls, written>>

QueryQvmRaises ==
    /\ pc = "label" /\ pass = "pyquil"
    /\ Raise("label_raises")

\* col_cirq = "Cirq " + cirq.__version__; results[col_cirq] = np.nan
LabelCirq ==
    /\ pc = "label" /\ pass = "cirq"
    /\ col' = col @@ ("cirq" :> <<"Cirq", CirqVersion>>)
    /\ results' = set_column(results, <<"Cirq", CirqVersion>>)
    /\ EnterLoop(LoopBody(pass))
    /\ ev' = Event("label", "cirq", 0)
    /\ UNCHANGED <<gen_vars, from_qubits, to_qubits, pass, gc_enabled, handles, circ,
                   repeat, r, b, best, start_time, clock, elapsed_time,
                   plotted, samples, calls, written>>

\* simulator = cirq.Simulator()
NewSimulator ==
    /\ pc = "simulator"
    /\ handles' = handles \cup {"simulator"}
    /\ pc' = "build"
    /\ ev' = Event("acquire", "cirq", i)
    /\ UNCHANGED <<gen_vars, from_qubits, to_qubits, pass, gc_enabled, results, col, i,
                   circ, repeat, r, b, best, start_time, clock, elapsed_time,
                   plotted, samples, calls, written>>

\* circ = qft_qiskit(i) | qft_pyquil(i); circ.wrap_in_numshots_loop(1) | qft_cirq(i)
build(p, n) ==
    CASE p = "qiskit" -> [program |-> qft_qiskit(n)]
      [] p = "pyquil" -> [program |-> qft_pyquil(n), num_shots |-> 1]
      [] p = "cirq" -> [program |-> qft_cirq(n)]

Build ==
    /\ pc = "build"
    /\ circ' = build(pass, i)
    /\ pc' = "repeat"
    /\ ev' = Event("build", "none", i)
    /\ UNCHANGED <<gen_vars, from_qubits, to_qubits, pass, gc_enabled, results, col,
                   handles, i, repeat, r, b, best, start_time, clock,
                   elapsed_time, plotted, samples, calls, written>>

\* the generator or the SDK rejects the size
BuildRaises ==
    /\ pc = "build"
    /\ Raise("build_raises")

\* repeat = 4 if i <= 20 else 1
SetRepeat ==
    /\ pc = "repeat"
    /\ repeat' = repeat_for(i)
    /\ pc' = IF pass = "pyquil" THEN "get_qc" ELSE "init_best"
    /\ b' = CASE pass = "qiskit" -> "toaster"
              [] pass = "pyquil" -> "qvm"
              [] pass = "cirq" -> "cirq"
    /\ ev' = Event("repeat", "none", i)
    /\ UNCHANGED <<gen_vars, from_qubits, to_qubits, pass, gc_enabled, results, col,
                   handles, i, circ, r, best, start_time, clock, elapsed_time,
                   plotted, samples, calls, written>>

\* qc = get_qc(str(i) + 'q-qvm')
GetQc ==
    /\ pc = "get_qc"
    /\ handles' = handles \cup {"qc"}
    /\ pc' = "init_best"
    /\ ev' = Event("acquire", "qvm", i)
    /\ UNCHANGED <<gen_vars, from_qubits, to_qubits, pass, gc_enabled, results, col, i,
                   circ, repeat, r, b, best, start_time, clock, elapsed_time,
                   plotted, samples, calls, written>>

\* for r in range(repeat): the next repetition, or the statement after the loop
ForR_nocollect(k) == IF k < repeat THEN "time_start" ELSE "write"

ForR(k) == IF k < repeat THEN "collect" ELSE "write"

\* toaster_time = np.nan (aer_time, qvm_time, cirq_time); for r in range(repeat)
InitBest ==
    /\ pc = "init_best"
    /\ best' = NaN
    /\ r' = 0
    /\ samples' = <<>>
    /\ pc' = ForR(0)
    /\ ev' = Event("init_best", b, i)
    /\ UNCHANGED <<gen_vars, from_qubits, to_qubits, pass, gc_enabled, results, col,
                   handles, i, circ, repeat, b, start_time, clock,
                   elapsed_time, plotted, calls, written>>

\* gc.collect()
GcCollect ==
    /\ pc = "collect"
    /\ pc' = "time_start"
    /\ ev' = Event("gc.collect", b, i)
    /\ UNCHANGED <<gen_vars, from_qubits, to_qubits, pass, gc_enabled, results, col,
                   handles, i, circ, repeat, r, b, best, start_time, clock,
                   elapsed_time, plotted, samples, calls, written>>

\* start_time = time.time(); the clock is read relative to this instant
TimeStart ==
    /\ pc = "time_start"
    /\ clock' = 0
    /\ start_time' = 0
    /\ pc' = "run"
    /\ ev' = Event("time_start", b, i)
    /\ UNCHANGED <<gen_vars, from_qubits, to_qubits, pass, gc_enabled, results, col,
                   handles, i, circ, repeat, r, b, best, elapsed_time,
                   plotted, samples, calls, written>>

\* job = execute(circ, backend=..., shots=1); result = job.result()
\* result = qc.run(circ) | simulator.run(circ, repetitions=1)
Run ==
    /\ pc = "run"
    /\ \E d \in 1..MaxElapsed : clock' = clock + d
    /\ calls' = [calls EXCEPT ![b][i] = @ + 1]
    /\ pc' = "time_stop"
    /\ ev' = Event("run", b, i)
    /\ UNCHANGED <<gen_vars, from_qubits, to_qubits, pass, gc_enabled, results, col,
                   handles, i, circ, repeat, r, b, best, start_time,
                   elapsed_time, plotted, samples, written>>

RunRaises ==
    /\ pc = "run"
    /\ Raise("run_raises")

\* elapsed_time = (time.time() - start_time) * 1000
TimeStop ==
    /\ pc = "time_stop"
    /\ elapsed_time' = (clock - start_time) * 1000
    /\ pc' = "fold"
    /\ ev' = Event("time_stop", b, i)
    /\ UNCHANGED <<gen_vars, from_qubits, to_qubits, pass, gc_enabled, results, col,
                   handles, i, circ, repeat, r, b, best, start_time, clock,
                   plotted, samples, calls, written>>

\* toaster_time = elapsed_time if np.isnan(toaster_time) else min(toaster_time, elapsed_time)
fold_last(cur, elapsed) == elapsed

fold(cur, elapsed) == IF isnan(cur) THEN elapsed ELSE min(cur, elapsed)

Fold ==
    /\ pc = "fold"
    /\ best' = fold(best, elapsed_time)
    /\ samples' = Append(samples, elapsed_time)
    /\ r' = r + 1
    /\ pc' = ForR(r + 1)
    /\ ev' = Event("fold", b, i)
    /\ UNCHANGED <<gen_vars, from_qubits, to_qubits, pass, gc_enabled, results, col,
                   handles, i, circ, repeat, b, start_time, clock,
                   elapsed_time, plotted, calls, written>>

\* results[col_qiskit_toaster][i] = toaster_time; then the Aer loop
WriteToaster ==
    /\ pc = "write" /\ b = "toaster"
    /\ results' = set_cell(results, col[b], i, best)
    /\ written' = [written EXCEPT ![b] = Append(@, i)]
    /\ b' = "aer"
    /\ pc' = "init_best"
    /\ ev' = Event("write", b, i)
    /\ UNCHANGED <<gen_vars, from_qubits, to_qubits, pass, gc_enabled, col, handles, i,
                   circ, repeat, r, best, start_time, clock, elapsed_time,
                   plotted, samples, calls>>

\* results[col][i] = best, the last statement of the loop body
WriteCell ==
    /\ pc = "write" /\ b # "toaster"
    /\ results' = set_cell(results, col[b], i, best)
    /\ written' = [written EXCEPT ![b] = Append(@, i)]
    /\ NextIteration(LoopBody(pass))
    /\ ev' = Event("write", b, i)
    /\ UNCHANGED <<gen_vars, from_qubits, to_qubits, pass, gc_enabled, col, handles,
                   circ, repeat, r, b, best, start_time, clock, elapsed_time,
                   plotted, samples, calls>>

\* gc.enable(), the last statement of each pass; then the next pass, or the plot
GcEnable ==
    /\ pc = "gc_enable"
    /\ gc_enabled' = TRUE
    /\ pass' = CASE pass = "qiskit" -> "pyquil"
                 [] pass = "pyquil" -> "cirq"
                 [] pass = "cirq" -> "main"
    /\ pc' = IF pass = "cirq" THEN "plot" ELSE "gc_disable"
    /\ ev' = Event("gc.enable", "none", 0)
    /\ UNCHANGED <<gen_vars, from_qubits, to_qubits, results, col, handles, i, circ,
                   repeat, r, b, best, start_time, clock, elapsed_time,
                   plotted, samples, calls, written>>

\* print(results); plt.figure(...) ... plt.savefig("output/benchmark_qft.png")
Plot ==
    /\ pc = "plot"
    /\ plotted' = TRUE
    /\ pc' = "done"
    /\ ev' = Event("plot", "none", 0)
    /\ UNCHANGED <<gen_vars, from_qubits, to_qubits, pass, gc_enabled, results, col,
                   handles, i, circ, repeat, r, b, best, start_time, clock,
                   elapsed_time, samples, calls, written>>

Init == GenIdle /\ RunInit

Next ==
    \/ CreateResults \/ GcDisable
    \/ QueryToaster \/ QueryToasterRaises \/ LabelAer \/ GetBackends
    \/ QueryQvm \/ QueryQvmRaises \/ LabelCirq \/ NewSimulator
    \/ Build \/ BuildRaises \/ SetRepeat \/ GetQc \/ InitBest
    \/ GcCollect \/ TimeStart \/ Run \/ RunRaises \/ TimeStop \/ Fold
    \/ WriteToaster \/ WriteCell \/ GcEnable \/ Plot

Spec == Init /\ [][Next]_vars

\* ---------------------------------------------------------------------------
\* Properties
\* ---------------------------------------------------------------------------
\* The number of gates emitted before column j: 0 + 1 + ... + j
Tri(j) == (j * (j + 1)) \div 2

Count(c, g) == Cardinality({p \in 1..Len(c) : c[p].gate = g})

\* Column j of c is cphase(j, 0), ..., cphase(j, j-1), h(j), at its place.
ColumnsInOrder(c, n) ==
    \A j \in 0..(n - 1) :
        /\ Tri(j) + j + 1 <= Len(c)
        /\ c[Tri(j) + j + 1].gate = "h"
        /\ c[Tri(j) + j + 1].qubit = j
        /\ \A k \in 0..(j - 1) :
              /\ c[Tri(j) + k + 1].gate = "cphase"
              /\ c[Tri(j) + k + 1].control = j
              /\ c[Tri(j) + k + 1].target = k

GateCounts(c, n) == Count(c, "h") = n /\ Count(c, "cphase") = Tri(n - 1)

MeasuredInOrder(c, n) ==
    /\ Len(c) = Tri(n) + n
    /\ Count(c, "measure") = n
    /\ \A q \in 0..(n - 1) :
          c[Tri(n) + q + 1].gate = "measure" /\ c[Tri(n) + q + 1].qubit = q

\* C1 as claimed: each of the four generators emits, for every n, the columns
\* j = 0..n-1 (cphase(j,k) for k < j in increasing k, then h(j)) followed by
\* one measurement of every qubit in index order.
C1_AllGeneratorsMeasure ==
    gen # "none" =>
        /\ ColumnsInOrder(out, gen_n)
        /\ GateCounts(out, gen_n)
        /\ MeasuredInOrder(out, gen_n)

\* C1 amended: the columns and the gate counts are as claimed for all four
\* generators; qft_qiskit, qft_pyquil and qft_cirq end with the n
\* measurements, qft_qsim emits no measurement at all.
C1_Circuit ==
    gen # "none" =>
        /\ ColumnsInOrder(out, gen_n)
        /\ GateCounts(out, gen_n)
        /\ gen # "qft_qsim" => MeasuredInOrder(out, gen_n)
        /\ gen = "qft_qsim" =>
              Len(out) = Tri(gen_n) /\ Count(out, "measure") = 0

C1_Witness == gen = "qft_qsim" /\ gen_n = 4 /\ Len(out) = 10

\* C2 as claimed: for every n and k < j, the controlled-phase gate every
\* generator emits for (j, k) applies the phase pi / 2^(j-k) radians on
\* control j and target k at the same position of the sequence.
C2_SameAngleEveryBackend ==
    gen # "none" =>
        \A j \in 0..(gen_n - 1) : \A k \in 0..(j - 1) :
            /\ out[Tri(j) + k + 1].gate = "cphase"
            /\ out[Tri(j) + k + 1].control = j
            /\ out[Tri(j) + k + 1].target = k
            /\ out[Tri(j) + k + 1].angle = [piPow |-> 1, den |-> 2 ^ (j - k)]

\* C3 as claimed: for n = 3 the three controlled-phase gates of the pairs
\* (1,0), (2,0), (2,1) have the angles pi, pi/2, pi.
C3_AnglesAsClaimed ==
    (gen \in {"qft_qiskit", "qft_pyquil"} /\ gen_n = 3) =>
        /\ Count(out, "cphase") = 3
        /\ out[2].angle = [piPow |-> 1, den |-> 1]
        /\ out[4].angle = [piPow |-> 1, den |-> 2]
        /\ out[5].angle = [piPow |-> 1, den |-> 1]

\* C3 amended: for n = 3 there are exactly three controlled-phase gates, and
\* the values pi/2^(j-k) of the pairs (1,0), (2,0), (2,1) are pi/2, pi/4, pi/2;
\* they are the phase angles of qft_qiskit, qft_pyquil and qft_qsim, and the
\* ZPowGate exponents of qft_cirq (a phase of pi times the exponent).
C3_Angles ==
    (gen # "none" /\ gen_n = 3) =>
        /\ Count(out, "cphase") = 3
        /\ <<out[2].control, out[2].target>> = <<1, 0>>
        /\ <<out[4].control, out[4].target>> = <<2, 0>>
        /\ <<out[5].control, out[5].target>> = <<2, 1>>
        /\ <<out[2].angle.den, out[4].angle.den, out[5].angle.den>> = <<2, 4, 2>>
        /\ \A p \in {2, 4, 5} :
              out[p].angle.piPow = IF gen = "qft_cirq" THEN 2 ELSE 1

C3_Witness == gen = "qft_pyquil" /\ gen_n = 3 /\ Len(out) = 9

Rows == from_qubits..to_qubits

WrittenRows(bk) == {written[bk][x] : x \in 1..Len(written[bk])}

\* C4: for every backend and every n whose cell has been written, exactly 4
\* run calls were made for (n, backend) when n <= 20 and exactly 1 when n > 20.
C4_RepeatCount ==
    \A bk \in Backends : \A n \in WrittenRows(bk) :
        calls[bk][n] = IF n <= 20 THEN 4 ELSE 1

C4_Witness ==
    /\ written["cirq"] = <<20, 21>>
    /\ calls["cirq"][20] = 4
    /\ calls["cirq"][21] = 1

SampleSet == {samples[x] : x \in 1..Len(samples)}

\* C5: the value just written into a cell is one of the elapsed times sampled
\* for that cell and is <= every one of them.
C5_BestOf ==
    ev.op = "write" =>
        /\ results.data[col[ev.b]][ev.n] \in SampleSet
        /\ \A s \in SampleSet : results.data[col[ev.b]][ev.n] <= s

C5_Witness ==
    /\ ev.op = "write"
    /\ Len(samples) = 4
    /\ samples[1] < samples[4]
    /\ samples[2] > samples[3]
    /\ results.data[col[ev.b]][ev.n] = samples[1]

\* C6: once the table exists its rows are exactly from_qubits..to_qubits, its
\* columns are exactly the labels added so far, and every column has an entry
\* in every row and in no other.
C6_TableShape ==
    pc # "main" =>
        /\ results.index = Rows
        /\ ColumnSet(results) = {col[bk] : bk \in DOMAIN col}
        /\ DOMAIN results.data = ColumnSet(results)
        /\ \A l \in ColumnSet(results) : DOMAIN results.data[l] = Rows

C6_Witness ==
    /\ pc = "aborted"
    /\ from_qubits < to_qubits
    /\ Len(results.columns) = 2
    /\ results.data[col["aer"]][to_qubits] = NaN
    /\ results.data[col["aer"]][from_qubits] # NaN

Raises == {"label_raises", "build_raises", "run_raises"}

AllWritten == \A bk \in Backends : WrittenRows(bk) = Rows

\* C7: a raise aborts the invocation at once without writing a cell; after the
\* abort nothing more happens (no sample, no cell, no retry, no plot); and the
\* plot is written only when every backend has written every row.
C7_AbortOnFirstFailure ==
    /\ [][/\ ev'.op \in Raises =>
                (pc' = "aborted" /\ results' = results /\ calls' = calls)
          /\ pc = "aborted" => FALSE]_vars
    /\ [](pc = "aborted" => ~plotted)
    /\ [](plotted => AllWritten)

C7_Witness ==
    /\ pc = "aborted"
    /\ ev = Event("run_raises", "qvm", 21)
    /\ written["toaster"] = <<20, 21>>
    /\ written["qvm"] = <<20>>
    /\ ~plotted

\* C8 as claimed: whenever the invocation has ended, by completion or by an
\* abort, automatic garbage collection is enabled.
C8_GcEnabledAtExit == pc \in {"done", "aborted"} => gc_enabled

Timed == {"time_start", "run", "time_stop"}

\* C9: the start timestamp directly follows the forced collection, the run
\* call directly follows the start timestamp, the end timestamp directly
\* follows the run call, all for the same backend and n, and automatic
\* collection is disabled throughout.
C9_TimedRegion ==
    [][/\ ev'.op \in Timed => (~gc_enabled /\ ev'.b = ev.b /\ ev'.n = ev.n)
       /\ ev'.op = "time_start" => ev.op = "gc.collect"
       /\ ev'.op = "run" => ev.op = "time_start"
       /\ ev'.op = "time_stop" => ev.op = "run"]_vars

C9_Witness ==
    /\ ev = Event("time_stop", "aer", 20)
    /\ r = 3
    /\ ~gc_enabled

Started(bk) == \E n \in Rows : calls[bk][n] > 0

Complete(bk) == WrittenRows(bk) = Rows

\* written[bk] is from_qubits, from_qubits + 1, ... : increasing, each once
InRowOrder(bk) ==
    /\ Len(written[bk]) <= Cardinality(Rows)
    /\ \A x \in 1..Len(written[bk]) : written[bk][x] = from_qubits + x - 1

\* C10 as claimed: when a sample is taken or a cell written for a backend,
\* every other backend that has been sampled has all its cells written; and
\* each backend's cells are written in increasing n order, each once.
C10_OneBackendAtATime ==
    /\ \A bk \in Backends : InRowOrder(bk)
    /\ ev.op \in {"run", "write"} =>
          \A bk \in Backends \ {ev.b} : Started(bk) => Complete(bk)

\* C10 amended: the same with passes for backends: when a sample is taken or a
\* cell written in a pass, every backend of another pass that has been sampled
\* has all its cells written; inside the Qiskit pass the Toaster and Aer
\* backends alternate row by row, Toaster first; each backend's cells are
\* written in increasing n order, each once.
C10_OnePassAtATime ==
    /\ \A bk \in Backends : InRowOrder(bk)
    /\ Len(written["aer"]) <= Len(written["toaster"])
    /\ Len(written["toaster"]) <= Len(written["aer"]) + 1
    /\ ev.op \in {"run", "write"} =>
          \A bk \in Backends :
              (PassOf(bk) # PassOf(ev.b) /\ Started(bk)) => Complete(bk)

C10_Witness ==
    /\ ev = Event("run", "aer", 20)
    /\ written["toaster"] = <<20>>
    /\ to_qubits = 21
====
